---- MODULE Spec2Model ----
(***************************************************************************)
(* A model of the receipt printer manager.                                 *)
(*                                                                         *)
(* Part 1, the print job scheduler of src/src/app.rs: the `update`         *)
(* function of the iced application seen as a state machine.  Every        *)
(* Message variant that touches the scheduler state is one action; the     *)
(* asynchronous work an update starts (a print task, an image download)    *)
(* is kept in `tasks`, `manual_tasks` and `downloads` until the message    *)
(* that reports its result is handled.                                     *)
(*                                                                         *)
(* Part 2, the shared connection of src/src/printer/connection.rs: the     *)
(* mutex-guarded Option<PrinterConnection> and the three functions that    *)
(* work on it.  Each call holds the lock from start to end, so a call is   *)
(* one action; the device calls it makes are appended to `log` in the      *)
(* order the code makes them.                                              *)
(*                                                                         *)
(* Left out of the state are the fields update writes and never reads:     *)
(* the ConnectionStatus shown in the status bar, last_result, the          *)
(* messages_printed_count, the platform warnings, the help and panel       *)
(* toggles, and the sender/preview/time/image fields of a display entry.   *)
(* The editor text is an input of the Print message (whether there is      *)
(* something to print).  The fire-and-forget mark_printed/mark_failed task *)
(* of PrintMessageResult changes no state (MarkResult only logs) and is    *)
(* left out too.                                                           *)
(***************************************************************************)
EXTENDS Integers, Sequences, FiniteSets

(***************************************************************************)
(* Bounds of the model.                                                    *)
(***************************************************************************)
\* Jobs pushed onto print_queue for the messages the poller delivers.
MaxPushes == 4
\* Jobs taken from print_queue over a whole run.
MaxPops == 3
\* Messages in one PollEvent::MessagesReceived batch.
MaxBatch == 2
\* Manual print tasks outstanding at once.
MaxManual == 1
\* Calls made on the shared connection over a whole run.
MaxRequests == 3
\* Characters in the text of a span of a document to wrap.
MaxTextLen == 3
\* Spans in a Heading or Line block to wrap, and cells in a Columns block.
MaxBlockSpans == 2
MaxCells == 3
\* Blocks in a document to wrap, and the widest line wrapped to.
MaxBlocks == 1
MaxWidth == 4
\* Lines compiled to commands, and the spans they hold between them.
MaxLines == 2
MaxSpans == 3
\* Commands handed to execute_commands.
MaxCommands == 3
\* Calls on the printer that the device may fail during one job.
MaxCalls == 12
\* Bytes in a fragment handed to parse_inline.
MaxInputLen == 4
\* Columns and rows of an image to dither.
MaxImageWidth == 2
MaxImageHeight == 2

\* received_messages keeps the newest 50 entries (app.rs:445).
ReceivedCap == 50
\* The messages the poller delivers: their ids, and which of them have an
\* image_url.
MessageIds == {1, 2, 3}
\* Messages delivered earlier, all of them text, whose jobs wait in the
\* backlog while a print task hangs: with message 3 they fill the display
\* list.  The poller does not deliver them again.
OldIds == {id \in 1 .. (ReceivedCap + 2) : id \notin MessageIds}
AllIds == MessageIds \cup OldIds
ImageIds == {1}
\* USB product ids of the attached printers.
ProductIds == {1, 2}
\* What a scan can find: nothing, or both printers.
ScanLists == {<<>>, <<1, 2>>}

(***************************************************************************)
(* Option<T>: None is the empty sequence, Some(x) the one-element one.     *)
(***************************************************************************)
None == <<>>
Some(x) == <<x>>
Unwrap(o) == o[1]

\* The bytes an image download for message `id` returns.
BytesOf(id) == id

VARIABLES
    printing,            \* App.printing
    print_queue,         \* App.print_queue: Seq of [message_id, image_bytes]
    received_messages,   \* App.received_messages: Seq of [id, status]
    selected_printer,    \* App.selected_printer: Option<usize> (0-based)
    discovered,          \* App.discovered: Seq of product ids
    tasks,               \* queued-job print tasks started and not yet reported
    manual_tasks,        \* number of manual print tasks started, not yet reported
    downloads,           \* downloads[id]: image downloads started, not yet reported
    pushed,              \* history: pushed[id], the jobs pushed onto print_queue for id
    dispatched,          \* history: dispatched[id], the print tasks started for id
    marked,              \* history: marked[id], the jobs for id taken and set to Failed
    poller_config,       \* App.poller_config.is_some()
    panicked,            \* update has panicked: the application is gone
    last_message,        \* history: the Message update handled last, [kind, id, ok]
    slot,                \* SharedConnection: None or Some(product id of the handle)
    log                  \* history: the calls on the shared connection and their device calls

VARIABLES
    blocks,              \* &[ReceiptBlock]: the parsed document handed to a function
    max_chars,           \* u8: the line width handed with it
    lines,               \* Vec<WrappedLine>: input of generate_commands_from_lines
    commands,            \* Vec<PrintCommand>: input of execute_commands
    request,             \* the call made last, with its arguments
    outcome              \* what that call returned and did

renderVars == <<blocks, max_chars, lines, commands, request, outcome>>

VARIABLES
    scan,                \* parse_inline: its input and the locals pos and spans
    image,               \* the GrayImage handed to floyd_steinberg_dither
    dithered             \* the pixels of the image after the call

pureVars == <<scan, image, dithered>>

appVars == <<printing, print_queue, received_messages, selected_printer, discovered,
             tasks, manual_tasks, downloads, pushed, dispatched, marked, poller_config,
             panicked, last_message>>
connVars == <<slot, log>>
vars == <<printing, print_queue, received_messages, selected_printer, discovered,
          tasks, manual_tasks, downloads, pushed, dispatched, marked, poller_config,
          panicked, last_message,
          slot, log,
          blocks, max_chars, lines, commands, request, outcome,
          scan, image, dithered>>

(***************************************************************************)
(* The application state as one record, so that the handlers are           *)
(* operators from state to state like the functions they model.            *)
(***************************************************************************)
Cur ==
    [printing |-> printing, print_queue |-> print_queue,
     received_messages |-> received_messages, selected_printer |-> selected_printer,
     discovered |-> discovered,
     tasks |-> tasks, manual_tasks |-> manual_tasks, downloads |-> downloads,
     pushed |-> pushed, dispatched |-> dispatched, marked |-> marked,
     poller_config |-> poller_config, panicked |-> panicked]

Becomes(a) ==
    /\ printing' = a.printing
    /\ print_queue' = a.print_queue
    /\ received_messages' = a.received_messages
    /\ selected_printer' = a.selected_printer
    /\ discovered' = a.discovered
    /\ tasks' = a.tasks
    /\ manual_tasks' = a.manual_tasks
    /\ downloads' = a.downloads
    /\ pushed' = a.pushed
    /\ dispatched' = a.dispatched
    /\ marked' = a.marked
    /\ poller_config' = a.poller_config
    /\ panicked' = a.panicked

RECURSIVE SumOver(_, _)
SumOver(f, S) ==
    IF S = {} THEN 0
    ELSE LET x == CHOOSE y \in S : TRUE IN f[x] + SumOver(f, S \ {x})

\* The sum of f over the ids 1 .. n.
RECURSIVE SumTo(_, _)
SumTo(f, n) == IF n = 0 THEN 0 ELSE f[n] + SumTo(f, n - 1)

\* Number of jobs pushed onto print_queue so far, and the number removed
\* from it; the job at the head of the queue is push number PoppedOf(a) + 1.
\* DeliveredOf: the pushes for the messages the poller delivers.
PushedOf(a) == SumTo(a.pushed, ReceivedCap + 2)
PoppedOf(a) == PushedOf(a) - Len(a.print_queue)
DeliveredOf(a) == SumOver(a.pushed, MessageIds)
\* The part of the runs that is followed.
Bounded(a) == DeliveredOf(a) <= MaxPushes /\ PoppedOf(a) <= MaxPops

(***************************************************************************)
(* iter_mut().find(|m| m.id == id): the first entry with that id.          *)
(* FirstIndex(ids, id) is its position in the sequence of ids, 0 for none. *)
(***************************************************************************)
FirstIndex(ids, id) ==
    IF \E i \in 1 .. Len(ids) : ids[i] = id
    THEN CHOOSE i \in 1 .. Len(ids) : ids[i] = id /\ \A j \in 1 .. (i - 1) : ids[j] # id
    ELSE 0

\* Whether the display list holds an entry for id.
Shown(rms, id) == \E i \in 1 .. Len(rms) : rms[i].id = id

SetStatus(rms, id, st) ==
    LET i == FirstIndex([k \in 1 .. Len(rms) |-> rms[k].id], id)
    IN  IF i = 0 THEN rms ELSE [rms EXCEPT ![i].status = st]

\* Variant: the bytes written to every queued job.
SetJobImage_AllJobs(q, id, bytes) ==
    [i \in 1 .. Len(q) |-> [q[i] EXCEPT !.image_bytes = Some(bytes)]]

SetJobImage(q, id, bytes) ==
    LET i == FirstIndex([k \in 1 .. Len(q) |-> q[k].message_id], id)
    IN  IF i = 0 THEN q ELSE [q EXCEPT ![i].image_bytes = Some(bytes)]

(***************************************************************************)
(* try_print_next_queued (app.rs:481-522)                                  *)
(***************************************************************************)
StartQueuedTask(a, job) ==
    LET ord == PoppedOf(a) + 1
        idx == Unwrap(a.selected_printer)
    IN  [a EXCEPT !.print_queue = Tail(@),
                  !.printing = TRUE,
                  !.tasks = @ \cup {[message_id |-> job.message_id,
                                      image_bytes |-> job.image_bytes,
                                      product_id |-> a.discovered[idx + 1],
                                      ord |-> ord]},
                  !.dispatched[job.message_id] = @ + 1]

TryPrintNextQueued(a) ==
    IF a.printing THEN a
    ELSE IF a.print_queue = <<>> THEN a
    ELSE LET job == Head(a.print_queue)
         IN  IF a.selected_printer = None
             THEN [a EXCEPT !.print_queue = Tail(@),
                            !.received_messages =
                                SetStatus(@, job.message_id, "Failed(No printer)"),
                            !.marked[job.message_id] =
                                IF Shown(a.received_messages, job.message_id)
                                THEN @ + 1 ELSE @]
             ELSE IF Unwrap(a.selected_printer) >= Len(a.discovered)
             THEN [a EXCEPT !.print_queue = Tail(@)]
             ELSE StartQueuedTask(a, job)

(***************************************************************************)
(* update, Message::Print (app.rs:226-257)                                 *)
(* has_content: parsed_blocks is non-empty and the text is not blank.      *)
(* The handler does not read app.printing.  The view (app.rs:681-693)      *)
(* offers the Print button only while printing is false, but a press that  *)
(* the runtime has queued behind a message that sets printing is handled   *)
(* by update all the same.                                                 *)
(***************************************************************************)
UpdatePrint(a, has_content) ==
    IF ~has_content THEN a
    ELSE IF a.selected_printer = None THEN a
    ELSE IF Unwrap(a.selected_printer) >= Len(a.discovered) THEN a
    ELSE [a EXCEPT !.printing = TRUE, !.manual_tasks = @ + 1]

(***************************************************************************)
(* update, Message::PrintResult (app.rs:259-264)                           *)
(***************************************************************************)
\* Variant: the completion clears the flag and does not look at the queue.
UpdatePrintResult_NoDispatch(a, ok) ==
    [a EXCEPT !.manual_tasks = @ - 1, !.printing = FALSE]

UpdatePrintResult(a, ok) ==
    TryPrintNextQueued([a EXCEPT !.manual_tasks = @ - 1, !.printing = FALSE])

(***************************************************************************)
(* update, Message::PrintMessageResult (app.rs:311-353)                    *)
(***************************************************************************)
UpdatePrintMessageResult(a, t, ok) ==
    TryPrintNextQueued(
        [a EXCEPT !.tasks = @ \ {t},
                  !.printing = FALSE,
                  !.received_messages =
                      SetStatus(@, t.message_id, IF ok THEN "Printed" ELSE "Failed(e)")])

(***************************************************************************)
(* update, Message::ImageDownloaded (app.rs:362-397)                       *)
(***************************************************************************)
UpdateImageDownloaded(a, id, ok) ==
    LET a1 == [a EXCEPT !.downloads[id] = @ - 1]
        a2 == IF ok
              THEN [a1 EXCEPT !.print_queue = SetJobImage(@, id, BytesOf(id))]
              ELSE a1
    IN  IF ~a2.printing THEN TryPrintNextQueued(a2) ELSE a2

(***************************************************************************)
(* handle_received_messages (app.rs:407-478): the loop over one batch.     *)
(* A message is [id, has_image, content, created_at]; has_image is         *)
(* image_url.is_some(), content and created_at are Strings, the sequences  *)
(* of their characters.  A slice of a String by byte offsets panics when   *)
(* an offset is not on a character boundary.                               *)
(***************************************************************************)
\* The bytes of a character in UTF-8, for the characters the model writes:
\* one for ASCII, two for e-acute, three for the euro sign.
Utf8Len(c) == IF c = "é" THEN 2 ELSE IF c = "€" THEN 3 ELSE 1

\* Whether byte offset n of text is on a character boundary, the walk
\* standing before character i at offset off (str::is_char_boundary).
RECURSIVE IsCharBoundaryFrom(_, _, _, _)
IsCharBoundaryFrom(text, i, off, n) ==
    IF off = n THEN TRUE
    ELSE IF off > n \/ i > Len(text) THEN FALSE
    ELSE IsCharBoundaryFrom(text, i + 1, off + Utf8Len(text[i]), n)
IsCharBoundary(text, n) == IsCharBoundaryFrom(text, 1, 0, n)

\* text.len(): the bytes of text, from character i on.
RECURSIVE ByteLenFrom(_, _)
ByteLenFrom(text, i) ==
    IF i > Len(text) THEN 0 ELSE Utf8Len(text[i]) + ByteLenFrom(text, i + 1)
ByteLen(text) == ByteLenFrom(text, 1)

\* The preview of app.rs:421-425: &msg.content[..47] when the content is
\* longer than 50 bytes.
PreviewPanics(content) == ByteLen(content) > 50 /\ ~IsCharBoundary(content, 47)
\* format_time_short (app.rs:949-956): iso[11..16] when iso has 16 bytes or
\* more.
FormatTimeShortPanics(iso) ==
    ByteLen(iso) >= 16 /\ ~(IsCharBoundary(iso, 11) /\ IsCharBoundary(iso, 16))
\* format_time, called by format_message (poller/format.rs:58-62): &iso[..16].
FormatTimePanics(iso) == ByteLen(iso) >= 16 /\ ~IsCharBoundary(iso, 16)
\* Whether the body of the loop panics on a message that is no duplicate;
\* all three slices are taken before the entry is pushed.
MessagePanics(msg) ==
    \/ PreviewPanics(msg.content)
    \/ FormatTimeShortPanics(msg.created_at)
    \/ FormatTimePanics(msg.created_at)

HandleOneMessage(a, msg) ==
    IF a.panicked THEN a
    ELSE IF \E i \in 1 .. Len(a.received_messages) : a.received_messages[i].id = msg.id
    THEN a
    ELSE IF MessagePanics(msg)
    THEN [a EXCEPT !.panicked = TRUE]
    ELSE LET shown == Append(a.received_messages,
                              [id |-> msg.id, status |-> "Printing"])
             capped == IF Len(shown) > ReceivedCap THEN Tail(shown) ELSE shown
             a1 == [a EXCEPT !.received_messages = capped,
                             !.print_queue =
                                 Append(@, [message_id |-> msg.id, image_bytes |-> None]),
                             !.pushed[msg.id] = @ + 1,
                             !.downloads[msg.id] =
                                 IF msg.has_image /\ a.poller_config THEN @ + 1 ELSE @]
         IN  IF ~msg.has_image /\ ~a1.printing THEN TryPrintNextQueued(a1) ELSE a1

\* The loop: it ends at the message whose handling panics.
RECURSIVE HandleMessagesInTurn(_, _)
HandleMessagesInTurn(a, messages) ==
    IF messages = <<>> THEN a
    ELSE HandleMessagesInTurn(HandleOneMessage(a, Head(messages)), Tail(messages))

\* The whole function.  The tasks the loop has made (downloads, the print
\* task of try_print_next_queued) are started by the runtime when update
\* returns them in Task::batch; a panic unwinds out of update and drops
\* them unstarted, while what the loop wrote to the App stays written.
HandleReceivedMessages(a, messages) ==
    LET r == HandleMessagesInTurn(a, messages)
    IN  IF r.panicked
        THEN [r EXCEPT !.tasks = a.tasks,
                       !.downloads = a.downloads,
                       !.dispatched = a.dispatched]
        ELSE r

(***************************************************************************)
(* update, Message::PrintersFound (app.rs:180-204) and                     *)
(* Message::SelectPrinter (app.rs:206-216)                                 *)
(***************************************************************************)
UpdatePrintersFound(a, ok, printers) ==
    IF ok
    THEN [a EXCEPT !.selected_printer = IF printers = <<>> THEN None ELSE Some(0),
                   !.discovered = printers]
    ELSE [a EXCEPT !.discovered = <<>>, !.selected_printer = None]

\* Variant: the index is stored without looking it up in discovered.
UpdateSelectPrinter_Unchecked(a, idx) == [a EXCEPT !.selected_printer = Some(idx)]

UpdateSelectPrinter(a, idx) ==
    IF idx < Len(a.discovered) THEN [a EXCEPT !.selected_printer = Some(idx)] ELSE a

(***************************************************************************)
(* The actions of the scheduler: one per Message handled by update.        *)
(***************************************************************************)
\* What last_message records: the variant, and the message id and result
\* it carries (0 and TRUE where it carries none).
Handled(kind, id, ok) == [kind |-> kind, id |-> id, ok |-> ok]

\* What a message can hold: a short text, or thirty e-acute (60 bytes, byte
\* 47 inside a character); an ISO timestamp.
ShortContent == <<"h", "i">>
SplitContent == [i \in 1 .. 30 |-> "é"]
Timestamp ==
    <<"2", "0", "2", "5", "-", "0", "2", "-", "1", "9", "T",
      "1", "4", ":", "3", "0", ":", "0", "0", "Z">>
ReceiptMessage(id, content) ==
    [id |-> id, has_image |-> (id \in ImageIds), content |-> content,
     created_at |-> Timestamp]
\* The messages the website holds; message 2 comes with either content.
Messages ==
    {ReceiptMessage(id, ShortContent) : id \in MessageIds}
        \cup {ReceiptMessage(2, SplitContent)}
\* One answer of the pending-messages endpoint: each pending message once.
Batches ==
    {b \in UNION {[1 .. n -> Messages] : n \in 1 .. MaxBatch} :
        \A i, j \in 1 .. Len(b) : b[i].id = b[j].id => i = j}

PrintersFound ==
    /\ ~panicked
    /\ \E ok \in BOOLEAN, printers \in ScanLists :
           Becomes(UpdatePrintersFound(Cur, ok, printers))
    /\ last_message' = Handled("PrintersFound", 0, TRUE)
    /\ UNCHANGED <<connVars, renderVars, pureVars>>

SelectPrinter ==
    /\ ~panicked
    /\ \E idx \in 0 .. 2 : Becomes(UpdateSelectPrinter(Cur, idx))
    /\ last_message' = Handled("SelectPrinter", 0, TRUE)
    /\ UNCHANGED <<connVars, renderVars, pureVars>>

\* Message::Print
PrintRequested ==
    /\ ~panicked
    /\ manual_tasks < MaxManual
    /\ \E has_content \in BOOLEAN : Becomes(UpdatePrint(Cur, has_content))
    /\ last_message' = Handled("Print", 0, TRUE)
    /\ UNCHANGED <<connVars, renderVars, pureVars>>

PrintResult ==
    /\ ~panicked
    /\ manual_tasks > 0
    /\ \E ok \in BOOLEAN :
           /\ LET a == UpdatePrintResult(Cur, ok)
              IN  Bounded(a) /\ Becomes(a)
           /\ last_message' = Handled("PrintResult", 0, ok)
    /\ UNCHANGED <<connVars, renderVars, pureVars>>

\* PollEvent::MessagesReceived: the poller subscription exists only with a
\* config (app.rs:1118-1127).
MessagesReceived ==
    /\ ~panicked
    /\ poller_config
    /\ \E messages \in Batches :
           LET a == HandleReceivedMessages(Cur, messages)
           IN  /\ Bounded(a)
               /\ Becomes(a)
    /\ last_message' = Handled("MessagesReceived", 0, TRUE)
    /\ UNCHANGED <<connVars, renderVars, pureVars>>

PrintMessageResult ==
    /\ ~panicked
    /\ \E t \in tasks, ok \in BOOLEAN :
           /\ LET a == UpdatePrintMessageResult(Cur, t, ok)
              IN  Bounded(a) /\ Becomes(a)
           /\ last_message' = Handled("PrintMessageResult", t.message_id, ok)
    /\ UNCHANGED <<connVars, renderVars, pureVars>>

ImageDownloaded ==
    /\ ~panicked
    /\ \E id \in MessageIds, ok \in BOOLEAN :
           /\ downloads[id] > 0
           /\ LET a == UpdateImageDownloaded(Cur, id, ok)
              IN  Bounded(a) /\ Becomes(a)
           /\ last_message' = Handled("ImageDownloaded", id, ok)
    /\ UNCHANGED <<connVars, renderVars, pureVars>>

(***************************************************************************)
(* The shared connection (connection.rs:136-205).                          *)
(*                                                                         *)
(* A connection state is [slot, log].  An entry of the log is              *)
(* [ev, pid, ok]: the call that starts ("open_shared", "close_shared",     *)
(* "print_with_shared", with the product id asked for), a device open      *)
(* ("open", PrinterConnection::open of pid, ok or failed), a handle        *)
(* dropped ("close", the handle's pid), the operation f run against a      *)
(* handle ("run", the pid the handle is open to, f's result) and the       *)
(* call's result ("return").  A failed entry carries the error value in    *)
(* err: the String of the Err that PrinterConnection::open or f returned.  *)
(***************************************************************************)
NoError == "none"
OpenError == "Failed to open USB device"
FErrors == {"usb write failed", "usb timeout"}
Failed(ev, pid, e) == [ev |-> ev, pid |-> pid, ok |-> FALSE, err |-> e]
Event(ev, pid, ok) ==
    [ev |-> ev, pid |-> pid, ok |-> ok, err |-> IF ok THEN NoError ELSE OpenError]
CallKinds == {"open_shared", "close_shared", "print_with_shared"}
ConnCur == [slot |-> slot, log |-> log]

\* open_shared (connection.rs:144-164).  open_ok: whether
\* PrinterConnection::open succeeds, if it is called.
\* Variant: the old handle is dropped before the device is opened, so a
\* failed open leaves the slot empty.
OpenShared_DropsFirst(c, product_id, open_ok) ==
    LET log1 == Append(c.log, Event("open_shared", product_id, TRUE))
    IN  IF c.slot # None /\ Unwrap(c.slot) = product_id
        THEN [slot |-> c.slot, log |-> Append(log1, Event("return", product_id, TRUE))]
        ELSE IF ~open_ok
        THEN [slot |-> None,
              log |-> log1 \o <<Event("open", product_id, FALSE),
                                Event("return", product_id, FALSE)>>]
        ELSE [slot |-> Some(product_id),
              log |-> log1 \o <<Event("open", product_id, TRUE)>>
                           \o (IF c.slot # None
                               THEN <<Event("close", Unwrap(c.slot), TRUE)>>
                               ELSE <<>>)
                           \o <<Event("return", product_id, TRUE)>>]

OpenShared(c, product_id, open_ok) ==
    LET log1 == Append(c.log, Event("open_shared", product_id, TRUE))
    IN  IF c.slot # None /\ Unwrap(c.slot) = product_id
        THEN [slot |-> c.slot, log |-> Append(log1, Event("return", product_id, TRUE))]
        ELSE IF ~open_ok
        THEN [slot |-> c.slot,
              log |-> log1 \o <<Event("open", product_id, FALSE),
                                Event("return", product_id, FALSE)>>]
        ELSE \* *guard = Some(conn): the new handle is already open when the
             \* assignment drops the old one.
             [slot |-> Some(product_id),
              log |-> log1 \o <<Event("open", product_id, TRUE)>>
                           \o (IF c.slot # None
                               THEN <<Event("close", Unwrap(c.slot), TRUE)>>
                               ELSE <<>>)
                           \o <<Event("return", product_id, TRUE)>>]

\* close_shared (connection.rs:167-174)
CloseShared(c) ==
    LET log1 == Append(c.log, Event("close_shared", 0, TRUE))
    IN  IF c.slot # None
        THEN [slot |-> None,
              log |-> log1 \o <<Event("close", Unwrap(c.slot), TRUE),
                                Event("return", 0, TRUE)>>]
        ELSE [slot |-> None, log |-> Append(log1, Event("return", 0, TRUE))]

\* print_with_shared (connection.rs:178-205).  f_res: the result of the
\* operation f, if it is run: NoError for Ok(()), else the error of its Err.
\* Variant: a failed operation leaves the handle in the slot.
PrintWithShared_KeepsHandle(c, product_id, open_ok, f_res) ==
    LET log1 == Append(c.log, Event("print_with_shared", product_id, TRUE))
    IN  IF c.slot = None /\ ~open_ok
        THEN [slot |-> None,
              log |-> log1 \o <<Event("open", product_id, FALSE),
                                Event("return", product_id, FALSE)>>]
        ELSE LET slot1 == IF c.slot = None THEN Some(product_id) ELSE c.slot
                 log2 == IF c.slot = None
                         THEN Append(log1, Event("open", product_id, TRUE))
                         ELSE log1
             IN  IF f_res = NoError
                 THEN [slot |-> slot1,
                       log |-> log2 \o <<Event("run", Unwrap(slot1), TRUE),
                                         Event("return", product_id, TRUE)>>]
                 ELSE [slot |-> slot1,
                       log |-> log2 \o <<Failed("run", Unwrap(slot1), f_res),
                                         Failed("return", product_id, f_res)>>]

PrintWithShared(c, product_id, open_ok, f_res) ==
    LET log1 == Append(c.log, Event("print_with_shared", product_id, TRUE))
    IN  IF c.slot = None /\ ~open_ok
        THEN [slot |-> None,
              log |-> log1 \o <<Event("open", product_id, FALSE),
                                Event("return", product_id, FALSE)>>]
        ELSE LET slot1 == IF c.slot = None THEN Some(product_id) ELSE c.slot
                 log2 == IF c.slot = None
                         THEN Append(log1, Event("open", product_id, TRUE))
                         ELSE log1
             IN  IF f_res = NoError
                 THEN [slot |-> slot1,
                       log |-> log2 \o <<Event("run", Unwrap(slot1), TRUE),
                                         Event("return", product_id, TRUE)>>]
                 ELSE \* *guard = None, then Err(e)
                      [slot |-> None,
                       log |-> log2 \o <<Failed("run", Unwrap(slot1), f_res),
                                         Event("close", Unwrap(slot1), TRUE),
                                         Failed("return", product_id, f_res)>>]

NumCalls(l) == Cardinality({i \in 1 .. Len(l) : l[i].ev \in CallKinds})

ConnBecomes(c) ==
    /\ slot' = c.slot
    /\ log' = c.log

OpenSharedCall ==
    /\ NumCalls(log) < MaxRequests
    /\ \E product_id \in ProductIds, open_ok \in BOOLEAN :
           ConnBecomes(OpenShared(ConnCur, product_id, open_ok))
    /\ UNCHANGED <<appVars, renderVars, pureVars>>

CloseSharedCall ==
    /\ NumCalls(log) < MaxRequests
    /\ ConnBecomes(CloseShared(ConnCur))
    /\ UNCHANGED <<appVars, renderVars, pureVars>>

PrintWithSharedCall ==
    /\ NumCalls(log) < MaxRequests
    /\ \E product_id \in ProductIds, open_ok \in BOOLEAN,
          f_res \in {NoError} \cup FErrors :
           ConnBecomes(PrintWithShared(ConnCur, product_id, open_ok, f_res))
    /\ UNCHANGED <<appVars, renderVars, pureVars>>

(***************************************************************************)
(* Part 3, the rendering pipeline: word_wrap.rs, printer/rich_print.rs     *)
(* and the print functions of printer/connection.rs.  These are functions  *)
(* of their arguments; each is an operator, and an action applies it to    *)
(* the arguments held in blocks, max_chars, lines and commands and puts    *)
(* the call in `request` and its result in `outcome`.                      *)
(*                                                                         *)
(* A String is the sequence of its characters (ASCII, so that len() is     *)
(* the number of characters).                                              *)
(***************************************************************************)
\* char::is_whitespace on ASCII: space, tab, line feed, vertical tab, form
\* feed and carriage return.
IsWhitespace(c) == c \in {" ", "\t", "\n", "", "\f", "\r"}
Repeat(c, n) == [i \in 1 .. n |-> c]

\* receipt_markdown.rs: SpanFormat, ReceiptSpan, Alignment, ReceiptBlock
SpanFormat(b, u, d) == [bold |-> b, underline |-> u, double_size |-> d]
DefaultFormat == SpanFormat(FALSE, FALSE, FALSE)
ReceiptSpan(text, format) == [text |-> text, format |-> format]
PlainSpan(text) == ReceiptSpan(text, DefaultFormat)
Alignments == {"Left", "Center", "Right"}
Heading(spans) == [kind |-> "Heading", spans |-> spans]
Line(spans, alignment) == [kind |-> "Line", spans |-> spans, alignment |-> alignment]
Divider == [kind |-> "Divider"]
Columns(cells) == [kind |-> "Columns", cells |-> cells]
BlankLine == [kind |-> "BlankLine"]

\* word_wrap.rs:5-8
WrappedLine(spans, alignment) == [spans |-> spans, alignment |-> alignment]

\* split_words (word_wrap.rs:122-124): str::split_whitespace, the maximal
\* runs of non-whitespace characters of text[i..], `word` being the run read
\* so far.
RECURSIVE SplitWordsFrom(_, _, _)
SplitWordsFrom(text, i, word) ==
    IF i > Len(text)
    THEN IF word = <<>> THEN <<>> ELSE <<word>>
    ELSE IF IsWhitespace(text[i])
         THEN (IF word = <<>> THEN <<>> ELSE <<word>>) \o SplitWordsFrom(text, i + 1, <<>>)
         ELSE SplitWordsFrom(text, i + 1, Append(word, text[i]))

SplitWords(text) == SplitWordsFrom(text, 1, <<>>)

\* push_text_to_spans (word_wrap.rs:127-138)
PushTextToSpans(spans, text, format) ==
    IF spans # <<>> /\ spans[Len(spans)].format = format
    THEN [spans EXCEPT ![Len(spans)].text = @ \o text]
    ELSE Append(spans, ReceiptSpan(text, format))

\* The body of the word loop of wrap_spans (word_wrap.rs:68-99).  w holds
\* the locals lines, current_spans, current_len and needs_space.
WrapWord(w, word, format, max) ==
    IF word = <<>>
    THEN w
    ELSE IF w.current_len = 0
    THEN [w EXCEPT !.current_spans = PushTextToSpans(@, word, format),
                   !.current_len = Len(word),
                   !.needs_space = TRUE]
    ELSE IF w.needs_space /\ w.current_len + 1 + Len(word) <= max
    THEN [w EXCEPT !.current_spans =
                       PushTextToSpans(PushTextToSpans(@, <<" ">>, format), word, format),
                   !.current_len = @ + 1 + Len(word)]
    ELSE IF ~w.needs_space /\ w.current_len + Len(word) <= max
    THEN [w EXCEPT !.current_spans = PushTextToSpans(@, word, format),
                   !.current_len = @ + Len(word),
                   !.needs_space = TRUE]
    ELSE [w EXCEPT !.lines = Append(@, WrappedLine(w.current_spans, "Left")),
                   !.current_spans = PushTextToSpans(<<>>, word, format),
                   !.current_len = Len(word),
                   !.needs_space = TRUE]

RECURSIVE WrapWords(_, _, _, _)
WrapWords(w, words, format, max) ==
    IF words = <<>>
    THEN w
    ELSE WrapWords(WrapWord(w, Head(words), format, max), Tail(words), format, max)

RECURSIVE WrapSpansFrom(_, _, _)
WrapSpansFrom(w, spans, max) ==
    IF spans = <<>>
    THEN w
    ELSE WrapSpansFrom(WrapWords(w, SplitWords(Head(spans).text), Head(spans).format, max),
                       Tail(spans), max)

\* wrap_spans (word_wrap.rs:57-119)
WrapSpans(spans, max) ==
    LET w0 == [lines |-> <<>>, current_spans |-> <<>>, current_len |-> 0,
               needs_space |-> FALSE]
        w == WrapSpansFrom(w0, spans, max)
        emitted == IF w.current_spans # <<>>
                   THEN Append(w.lines, WrappedLine(w.current_spans, "Left"))
                   ELSE w.lines
    IN  IF emitted = <<>>
        THEN <<WrappedLine(<<PlainSpan(<<>>)>>, "Left")>>
        ELSE emitted

\* The text of a sequence of spans, one after the other
\* (word_wrap.rs:155-156).
RECURSIVE TextOf(_)
TextOf(spans) ==
    IF spans = <<>> THEN <<>> ELSE Head(spans).text \o TextOf(Tail(spans))

\* line_char_count (word_wrap.rs:179-181)
LineCharCount(spans) == Len(TextOf(spans))

\* format_columns (word_wrap.rs:142-176)
\* Variant: one space between the columns whatever the width.
FormatColumns_OneSpace(cells, max) ==
    IF Len(cells) < 2
    THEN WrappedLine(IF cells = <<>> THEN <<>> ELSE cells[1], "Left")
    ELSE WrappedLine(Append(cells[1], PlainSpan(Repeat(" ", 1))) \o cells[2], "Left")

FormatColumns(cells, max) ==
    IF Len(cells) < 2
    THEN WrappedLine(IF cells = <<>> THEN <<>> ELSE cells[1], "Left")
    ELSE LET left_len == Len(TextOf(cells[1]))
             right_len == Len(TextOf(cells[2]))
             padding == IF left_len + right_len < max
                        THEN max - left_len - right_len
                        ELSE 1
         IN  WrappedLine(Append(cells[1], PlainSpan(Repeat(" ", padding))) \o cells[2],
                         "Left")

WithAlignment(wrapped, alignment) ==
    [i \in 1 .. Len(wrapped) |-> [wrapped[i] EXCEPT !.alignment = alignment]]

\* The lines of one block: the match of wrap_document (word_wrap.rs:15-49).
\* Variant: every block wrapped to the full width.
WrapBlock_FullWidth(block, maxc) ==
    IF block.kind = "Heading"
    THEN WithAlignment(WrapSpans(block.spans, maxc), "Center")
    ELSE IF block.kind = "Line"
    THEN WithAlignment(WrapSpans(block.spans, maxc), block.alignment)
    ELSE IF block.kind = "Divider"
    THEN <<WrappedLine(<<PlainSpan(Repeat("-", maxc))>>, "Left")>>
    ELSE IF block.kind = "Columns"
    THEN <<FormatColumns(block.cells, maxc)>>
    ELSE <<WrappedLine(<<PlainSpan(<<>>)>>, "Left")>>

WrapBlock(block, maxc) ==
    IF block.kind = "Heading"
    THEN WithAlignment(WrapSpans(block.spans, maxc \div 2), "Center")
    ELSE IF block.kind = "Line"
    THEN LET has_double == \E i \in 1 .. Len(block.spans) : block.spans[i].format.double_size
             effective_max == IF has_double THEN maxc \div 2 ELSE maxc
         IN  WithAlignment(WrapSpans(block.spans, effective_max), block.alignment)
    ELSE IF block.kind = "Divider"
    THEN <<WrappedLine(<<PlainSpan(Repeat("-", maxc))>>, "Left")>>
    ELSE IF block.kind = "Columns"
    THEN <<FormatColumns(block.cells, maxc)>>
    ELSE <<WrappedLine(<<PlainSpan(<<>>)>>, "Left")>>

\* wrap_document (word_wrap.rs:11-53)
RECURSIVE WrapDocument(_, _)
WrapDocument(bs, maxc) ==
    IF bs = <<>> THEN <<>> ELSE WrapBlock(Head(bs), maxc) \o WrapDocument(Tail(bs), maxc)

\* rich_print.rs:10-17, PrintCommand
SetBold(on) == [cmd |-> "SetBold", on |-> on]
SetUnderline(on) == [cmd |-> "SetUnderline", on |-> on]
SetDoubleSize(on) == [cmd |-> "SetDoubleSize", on |-> on]
SetAlignment(alignment) == [cmd |-> "SetAlignment", alignment |-> alignment]
Write(text) == [cmd |-> "Write", text |-> text]
Feed == [cmd |-> "Feed"]

\* The body of the span loop of generate_commands_from_lines
\* (rich_print.rs:44-60).  g holds commands, bold_on, underline_on and
\* double_on.
\* Variant: SetBold pushed for every span, changed or not.
CompileSpan_AlwaysSetBold(g, span) ==
    LET c1 == Append(g.commands, SetBold(span.format.bold))
        c2 == IF span.format.underline # g.underline_on
              THEN Append(c1, SetUnderline(span.format.underline)) ELSE c1
        c3 == IF span.format.double_size # g.double_on
              THEN Append(c2, SetDoubleSize(span.format.double_size)) ELSE c2
        c4 == IF span.text # <<>> THEN Append(c3, Write(span.text)) ELSE c3
    IN  [commands |-> c4, bold_on |-> span.format.bold,
         underline_on |-> span.format.underline, double_on |-> span.format.double_size]

\* Variant: a Write pushed for an empty span too.
CompileSpan_WritesEmpty(g, span) ==
    LET c1 == IF span.format.bold # g.bold_on
              THEN Append(g.commands, SetBold(span.format.bold)) ELSE g.commands
        c2 == IF span.format.underline # g.underline_on
              THEN Append(c1, SetUnderline(span.format.underline)) ELSE c1
        c3 == IF span.format.double_size # g.double_on
              THEN Append(c2, SetDoubleSize(span.format.double_size)) ELSE c2
    IN  [commands |-> Append(c3, Write(span.text)), bold_on |-> span.format.bold,
         underline_on |-> span.format.underline, double_on |-> span.format.double_size]

CompileSpan(g, span) ==
    LET c1 == IF span.format.bold # g.bold_on
              THEN Append(g.commands, SetBold(span.format.bold)) ELSE g.commands
        c2 == IF span.format.underline # g.underline_on
              THEN Append(c1, SetUnderline(span.format.underline)) ELSE c1
        c3 == IF span.format.double_size # g.double_on
              THEN Append(c2, SetDoubleSize(span.format.double_size)) ELSE c2
        c4 == IF span.text # <<>> THEN Append(c3, Write(span.text)) ELSE c3
    IN  [commands |-> c4, bold_on |-> span.format.bold,
         underline_on |-> span.format.underline, double_on |-> span.format.double_size]

RECURSIVE CompileSpans(_, _)
CompileSpans(g, spans) ==
    IF spans = <<>> THEN g ELSE CompileSpans(CompileSpan(g, Head(spans)), Tail(spans))

\* The reset before the line feed, and the feed (rich_print.rs:63-74).
\* Variant: underline left on at the Feed.
CloseLine_LeavesUnderline(g) ==
    LET c1 == IF g.bold_on THEN Append(g.commands, SetBold(FALSE)) ELSE g.commands
        c3 == IF g.double_on THEN Append(c1, SetDoubleSize(FALSE)) ELSE c1
    IN  Append(c3, Feed)

CloseLine(g) ==
    LET c1 == IF g.bold_on THEN Append(g.commands, SetBold(FALSE)) ELSE g.commands
        c2 == IF g.underline_on THEN Append(c1, SetUnderline(FALSE)) ELSE c1
        c3 == IF g.double_on THEN Append(c2, SetDoubleSize(FALSE)) ELSE c2
    IN  Append(c3, Feed)

\* The alignment test at the head of the line loop (rich_print.rs:32-36).
\* Variant: SetAlignment pushed for every line.
OpenLine_AlwaysAligns(cmds, current_alignment, line) ==
    Append(cmds, SetAlignment(line.alignment))

OpenLine(cmds, current_alignment, line) ==
    IF line.alignment # current_alignment
    THEN Append(cmds, SetAlignment(line.alignment))
    ELSE cmds

\* The body of the line loop (rich_print.rs:31-75): the commands so far and
\* current_alignment become those after `line`.
CompileLine(s, line) ==
    LET g0 == [commands |-> OpenLine(s.commands, s.current_alignment, line),
               bold_on |-> FALSE, underline_on |-> FALSE, double_on |-> FALSE]
    IN  [commands |-> CloseLine(CompileSpans(g0, line.spans)),
         current_alignment |-> line.alignment]

RECURSIVE CompileLines(_, _)
CompileLines(s, ls) ==
    IF ls = <<>> THEN s ELSE CompileLines(CompileLine(s, Head(ls)), Tail(ls))

\* The reset of the alignment at the end (rich_print.rs:77-80).
\* Variant: no reset.
ResetAlignment_Never(s) == s.commands

ResetAlignment(s) ==
    IF s.current_alignment # "Left"
    THEN Append(s.commands, SetAlignment("Left"))
    ELSE s.commands

\* generate_commands_from_lines (rich_print.rs:27-83)
GenerateCommandsFromLines(ls) ==
    ResetAlignment(CompileLines([commands |-> <<>>, current_alignment |-> "Left"], ls))

\* generate_commands (rich_print.rs:21-24)
GenerateCommands(bs, maxc) == GenerateCommandsFromLines(WrapDocument(bs, maxc))

(***************************************************************************)
(* The calls on the escpos Printer.  A run of a print function is          *)
(* d = [sent, result, warned]: the calls made so far, each                 *)
(* [op, arg, ok], the Result the function is about to return, and the      *)
(* errors it logged and went on from.  `faults` is what the device does:   *)
(* the set of n such that the n-th call made returns an error.             *)
(***************************************************************************)
Ok == [ok |-> TRUE, err |-> <<"", 0>>]
Err(what, n) == [ok |-> FALSE, err |-> <<what, n>>]
NoRun == [sent |-> <<>>, result |-> Ok, warned |-> <<>>]

\* One call with `.map_err(|e| e.to_string())?` (or map_err to `what`): not
\* made once the function has returned; makes the function return the
\* call's error if it fails.
Call(d, faults, what, op, arg) ==
    IF ~d.result.ok
    THEN d
    ELSE LET n == Len(d.sent) + 1
             ok == n \notin faults
         IN  [d EXCEPT !.sent = Append(@, [op |-> op, arg |-> arg, ok |-> ok]),
                       !.result = IF ok THEN Ok ELSE Err(what, n)]

\* The call execute_commands makes for a command (rich_print.rs:92-125).
DriverCallOf(c) ==
    IF c.cmd = "SetBold"
    THEN [op |-> "bold", arg |-> <<IF c.on THEN "true" ELSE "false">>]
    ELSE IF c.cmd = "SetUnderline"
    THEN [op |-> "underline", arg |-> <<IF c.on THEN "Single" ELSE "None">>]
    ELSE IF c.cmd = "SetDoubleSize"
    THEN [op |-> "size", arg |-> IF c.on THEN <<"2", "2">> ELSE <<"1", "1">>]
    ELSE IF c.cmd = "SetAlignment"
    THEN [op |-> "justify",
          arg |-> <<CASE c.alignment = "Left" -> "LEFT"
                      [] c.alignment = "Center" -> "CENTER"
                      [] c.alignment = "Right" -> "RIGHT">>]
    ELSE IF c.cmd = "Write"
    THEN [op |-> "write", arg |-> c.text]
    ELSE [op |-> "feed", arg |-> <<>>]

\* execute_commands (rich_print.rs:87-128), run from d on.
\* Variant: the loop goes on after a failed call and returns the first error.
RECURSIVE ExecuteCommands_KeepsGoing(_, _, _)
ExecuteCommands_KeepsGoing(d, faults, cmds) ==
    IF cmds = <<>>
    THEN d
    ELSE LET dc == DriverCallOf(Head(cmds))
             d1 == Call([d EXCEPT !.result = Ok], faults, "driver", dc.op, dc.arg)
             d2 == IF d.result.ok THEN d1 ELSE [d1 EXCEPT !.result = d.result]
         IN  ExecuteCommands_KeepsGoing(d2, faults, Tail(cmds))

RECURSIVE ExecuteCommands(_, _, _)
ExecuteCommands(d, faults, cmds) ==
    IF cmds = <<>>
    THEN d
    ELSE LET dc == DriverCallOf(Head(cmds))
         IN  ExecuteCommands(Call(d, faults, "driver", dc.op, dc.arg), faults, Tail(cmds))

\* The image bytes of a job: what matters of them is whether there are any,
\* whether image::load_from_memory decodes them and whether the resized
\* image is written as PNG.
ImageBytes == {"empty", "undecodable", "unencodable", "png"}

\* print_image (connection.rs:105-133), run from d on.
PrintImage(d, faults, bytes) ==
    IF ~d.result.ok
    THEN d
    ELSE IF bytes = "undecodable"
    THEN [d EXCEPT !.result = Err("Image decode failed", 0)]
    ELSE IF bytes = "unencodable"
    THEN [d EXCEPT !.result = Err("PNG encode failed", 0)]
    ELSE Call(d, faults, "Image print failed", "bit_image", <<"576">>)

\* print_website_message (connection.rs:71-101)
\* Variant: the error of print_image returned with `?`.
PrintWebsiteMessage_ImageFatal(bs, maxc, image_bytes, faults) ==
    LET d1 == Call(NoRun, faults, "driver", "init", <<>>)
        d2 == ExecuteCommands(d1, faults, GenerateCommands(bs, maxc))
        d3 == IF image_bytes # None /\ Unwrap(image_bytes) # "empty"
              THEN PrintImage(Call(Call(d2, faults, "driver", "feeds", <<"2">>),
                                   faults, "driver", "init", <<>>),
                              faults, Unwrap(image_bytes))
              ELSE d2
        d4 == Call(d3, faults, "driver", "feeds", <<"3">>)
    IN  Call(d4, faults, "driver", "print_cut", <<>>)

\* Variant: the image is written in the init cycle of the text, with no
\* second init before it.
PrintWebsiteMessage_OneInitCycle(bs, maxc, image_bytes, faults) ==
    LET d1 == Call(NoRun, faults, "driver", "init", <<>>)
        d2 == ExecuteCommands(d1, faults, GenerateCommands(bs, maxc))
        d3 == IF image_bytes # None /\ Unwrap(image_bytes) # "empty"
              THEN LET b == Call(d2, faults, "driver", "feeds", <<"2">>)
                       c == PrintImage(b, faults, Unwrap(image_bytes))
                   IN  IF b.result.ok /\ ~c.result.ok
                       THEN [c EXCEPT !.result = Ok,
                                      !.warned = Append(@, c.result.err)]
                       ELSE c
              ELSE d2
        d4 == Call(d3, faults, "driver", "feeds", <<"3">>)
    IN  Call(d4, faults, "driver", "print_cut", <<>>)

PrintWebsiteMessage(bs, maxc, image_bytes, faults) ==
    LET d1 == Call(NoRun, faults, "driver", "init", <<>>)
        d2 == ExecuteCommands(d1, faults, GenerateCommands(bs, maxc))
        d3 == IF image_bytes # None /\ Unwrap(image_bytes) # "empty"
              THEN LET b == Call(Call(d2, faults, "driver", "feeds", <<"2">>),
                                 faults, "driver", "init", <<>>)
                       c == PrintImage(b, faults, Unwrap(image_bytes))
                   IN  \* if let Err(e) = self.print_image(bytes) { warn!(..) }
                       IF b.result.ok /\ ~c.result.ok
                       THEN [c EXCEPT !.result = Ok,
                                      !.warned = Append(@, c.result.err)]
                       ELSE c
              ELSE d2
        d4 == Call(d3, faults, "driver", "feeds", <<"3">>)
    IN  Call(d4, faults, "driver", "print_cut", <<>>)

(***************************************************************************)
(* The arguments the rendering functions are applied to.                   *)
(***************************************************************************)
Formats == {SpanFormat(b, u, d) : b \in BOOLEAN, u \in BOOLEAN, d \in BOOLEAN}
SeqsUpTo(S, n) == UNION {[1 .. k -> S] : k \in 0 .. n}
RECURSIVE SumSeq(_)
SumSeq(s) == IF s = <<>> THEN 0 ELSE Head(s) + SumSeq(Tail(s))

\* Documents for wrap_document: a block's texts are over a letter and the
\* space, in plain, bold and heading format.
WrapTexts == SeqsUpTo({"a", " "}, MaxTextLen)
WrapFormats == {DefaultFormat, SpanFormat(TRUE, FALSE, FALSE), SpanFormat(TRUE, FALSE, TRUE)}
WrapSpanValues == {ReceiptSpan(t, f) : t \in WrapTexts, f \in WrapFormats}
WrapSpanLists == SeqsUpTo(WrapSpanValues, MaxBlockSpans)
WrapCells == SeqsUpTo(WrapSpanValues, 1)
WrapBlocks ==
    {Heading(s) : s \in WrapSpanLists}
      \cup {Line(s, a) : s \in WrapSpanLists, a \in Alignments}
      \cup {Columns(c) : c \in SeqsUpTo(WrapCells, MaxCells)}
      \cup {Divider, BlankLine}
Widths == 1 .. MaxWidth

\* Lines for generate_commands_from_lines: at most MaxLines lines with at
\* most MaxSpans spans between them; a span's text is empty or one of two
\* letters, its format any.  A shape is the number of spans of each line.
SpanValues == {ReceiptSpan(t, f) : t \in {<<>>, <<"a">>, <<"b">>}, f \in Formats}
Shapes == {sh \in SeqsUpTo(0 .. MaxSpans, MaxLines) : SumSeq(sh) <= MaxSpans}
LinesOf(sh, flat, al) ==
    [i \in 1 .. Len(sh) |->
        WrappedLine(SubSeq(flat, SumSeq(SubSeq(sh, 1, i - 1)) + 1,
                                 SumSeq(SubSeq(sh, 1, i))),
                    al[i])]

\* Command lists for execute_commands.
AllCommands ==
    {SetBold(b) : b \in BOOLEAN} \cup {SetUnderline(b) : b \in BOOLEAN}
      \cup {SetDoubleSize(b) : b \in BOOLEAN}
      \cup {SetAlignment(a) : a \in Alignments}
      \cup {Write(t) : t \in {<<"a">>, <<"b">>}} \cup {Feed}
CommandLists == SeqsUpTo(AllCommands, MaxCommands)

\* What the device does over n calls: every call succeeds, one call fails,
\* or every call from some call on fails.
FaultPlans(n) == {{}} \cup {{k} : k \in 1 .. n} \cup {k .. n : k \in 1 .. n}

\* Jobs for print_website_message: no block or one, with or without image.
JobBlocks ==
    {Line(<<ReceiptSpan(<<"a">>, f)>>, a) :
        f \in {DefaultFormat, SpanFormat(TRUE, FALSE, FALSE)}, a \in {"Left", "Center"}}
      \cup {Divider, BlankLine}
JobDocs == SeqsUpTo(JobBlocks, 1)
JobImages == {None} \cup {Some(b) : b \in ImageBytes}

Request(fn, image_bytes, faults) ==
    [fn |-> fn, image_bytes |-> image_bytes, faults |-> faults]
NoRequest == Request("none", None, {})

UnchangedButRender == UNCHANGED <<appVars, connVars, pureVars>>

\* wrap_document(&blocks, max_chars)
WrapDocumentCall ==
    /\ request = NoRequest
    /\ lines' = WrapDocument(blocks, max_chars)
    /\ request' = Request("wrap_document", None, {})
    /\ UNCHANGED <<blocks, max_chars, commands, outcome>>
    /\ UnchangedButRender

\* generate_commands_from_lines(&lines)
GenerateCommandsFromLinesCall ==
    /\ request = NoRequest
    /\ commands' = GenerateCommandsFromLines(lines)
    /\ request' = Request("generate_commands_from_lines", None, {})
    /\ UNCHANGED <<blocks, max_chars, lines, outcome>>
    /\ UnchangedButRender

\* execute_commands(&mut printer, &commands)
ExecuteCommandsCall ==
    /\ request = NoRequest
    /\ \E faults \in FaultPlans(MaxCommands) :
           /\ outcome' = ExecuteCommands(NoRun, faults, commands)
           /\ request' = Request("execute_commands", None, faults)
    /\ UNCHANGED <<blocks, max_chars, lines, commands>>
    /\ UnchangedButRender

\* conn.print_website_message(&blocks, max_chars, image_bytes)
PrintWebsiteMessageCall ==
    /\ request = NoRequest
    /\ \E image_bytes \in JobImages, faults \in FaultPlans(MaxCalls) :
           /\ outcome' = PrintWebsiteMessage(blocks, max_chars, image_bytes, faults)
           /\ request' = Request("print_website_message", image_bytes, faults)
    /\ UNCHANGED <<blocks, max_chars, lines, commands>>
    /\ UnchangedButRender

(***************************************************************************)
(* Part 4, the inline scanner of receipt_markdown.rs.  parse_inline is a   *)
(* loop over the bytes of a fragment (a trimmed cell of a column line);    *)
(* `scan` holds its argument and its locals pos and spans, and one action  *)
(* is one iteration of the loop.  pos counts bytes from 0 as in the        *)
(* source.  iterations counts the iterations made; the loop is followed    *)
(* for one iteration more than the input has bytes.                        *)
(***************************************************************************)
Bold == SpanFormat(TRUE, FALSE, FALSE)
Underlined == SpanFormat(FALSE, TRUE, FALSE)
ByteAt(input, i) == input[i + 1]
\* &input[a..b]
Slice(input, a, b) == SubSeq(input, a + 1, b)

\* find_closing (receipt_markdown.rs:221-223): the first position from
\* `start` on where `delimiter` stands, None if there is none.
FindClosing(input, start, delimiter) ==
    LET found == {i \in start .. (Len(input) - Len(delimiter)) :
                      Slice(input, i, i + Len(delimiter)) = delimiter}
    IN  IF found = {} THEN None
        ELSE Some(CHOOSE i \in found : \A j \in found : i <= j)

\* The span between an opening delimiter at pos and its closing one at
\* `end` pushed, and pos moved behind the closing delimiter.
PushDelimited(st, open_len, end, format) ==
    LET text == Slice(st.input, st.pos + open_len, end)
    IN  [st EXCEPT !.spans = IF text # <<>> THEN Append(@, ReceiptSpan(text, format)) ELSE @,
                   !.pos = end + open_len]

\* The plain text from pos up to the next marker pushed, and pos moved to
\* the marker (receipt_markdown.rs:202-209).
PushPlain(st) ==
    LET markers == {i \in st.pos .. (Len(st.input) - 1) :
                        ByteAt(st.input, i) \in {"*", "_"}}
        stop == IF markers = {} THEN Len(st.input)
                ELSE CHOOSE i \in markers : \A j \in markers : i <= j
        text == Slice(st.input, st.pos, stop)
    IN  [st EXCEPT !.spans = IF text # <<>> THEN Append(@, PlainSpan(text)) ELSE @,
                   !.pos = stop]

\* One iteration of the loop of parse_inline (receipt_markdown.rs:153-210).
ParseInlineIteration(st) ==
    LET input == st.input
        pos == st.pos
        len == Len(input)
        two(c) == pos + 1 < len /\ ByteAt(input, pos) = c /\ ByteAt(input, pos + 1) = c
        one(c) == ByteAt(input, pos) = c /\ pos + 1 < len /\ ByteAt(input, pos + 1) # c
        close2(c) == FindClosing(input, pos + 2, <<c, c>>)
        close1(c) == FindClosing(input, pos + 1, <<c>>)
    IN  IF two("*") /\ close2("*") # None
        THEN PushDelimited(st, 2, Unwrap(close2("*")), Bold)
        ELSE IF two("_") /\ close2("_") # None
        THEN PushDelimited(st, 2, Unwrap(close2("_")), Bold)
        ELSE IF one("_") /\ close1("_") # None
        THEN PushDelimited(st, 1, Unwrap(close1("_")), Underlined)
        ELSE IF one("*") /\ close1("*") # None
        THEN PushDelimited(st, 1, Unwrap(close1("*")), Underlined)
        ELSE PushPlain(st)

\* What parse_inline returns once the loop has ended
\* (receipt_markdown.rs:212-216).
ParseInlineResult(st) ==
    IF st.spans = <<>> /\ st.input # <<>>
    THEN <<PlainSpan(st.input)>>
    ELSE st.spans

NewScan(input) ==
    [input |-> input, pos |-> 0, spans |-> <<>>, iterations |-> 0, returned |-> FALSE]
\* Fragments: text with spaces and the two delimiter characters.
InlineInputs == SeqsUpTo({"a", " ", "*", "_"}, MaxInputLen)

ParseInlineStep ==
    /\ ~scan.returned
    /\ scan.pos < Len(scan.input)
    /\ scan.iterations <= Len(scan.input)
    /\ scan' = [ParseInlineIteration(scan) EXCEPT !.iterations = @ + 1]
    /\ UNCHANGED <<appVars, connVars, renderVars, image, dithered>>

ParseInlineReturn ==
    /\ ~scan.returned
    /\ scan.pos >= Len(scan.input)
    /\ scan' = [scan EXCEPT !.spans = ParseInlineResult(scan), !.returned = TRUE]
    /\ UNCHANGED <<appVars, connVars, renderVars, image, dithered>>

(***************************************************************************)
(* Part 5, floyd_steinberg_dither of printer/image_proc.rs.  An image is   *)
(* [width, height, pixels], the pixels row by row.  The i16 buffer holds   *)
(* a pixel plus at most the whole error of four neighbours, far from the   *)
(* i16 limits; `/` on i16 rounds toward zero.                              *)
(***************************************************************************)
TruncDiv(a, b) == IF a >= 0 THEN a \div b ELSE -((-a) \div b)
Clamp(v) == IF v < 0 THEN 0 ELSE IF v > 255 THEN 255 ELSE v

\* The body of the pixel loop (image_proc.rs:210-229).
\* Variant: the pixel keeps its old value, the error is diffused all the same.
DitherPixel_KeepsOld(buf, x, y, width, height) ==
    LET idx == y * width + x
        old == Clamp(buf[idx + 1])
        new == IF old > 127 THEN 255 ELSE 0
        err == old - new
        b1 == [buf EXCEPT ![idx + 1] = old]
        b2 == IF x + 1 < width
              THEN [b1 EXCEPT ![idx + 2] = @ + TruncDiv(err * 7, 16)] ELSE b1
        b3 == IF y + 1 < height /\ x > 0
              THEN [b2 EXCEPT ![(y + 1) * width + x] = @ + TruncDiv(err * 3, 16)] ELSE b2
        b4 == IF y + 1 < height
              THEN [b3 EXCEPT ![(y + 1) * width + x + 1] = @ + TruncDiv(err * 5, 16)] ELSE b3
    IN  IF y + 1 < height /\ x + 1 < width
        THEN [b4 EXCEPT ![(y + 1) * width + x + 2] = @ + TruncDiv(err, 16)] ELSE b4

DitherPixel(buf, x, y, width, height) ==
    LET idx == y * width + x
        old == Clamp(buf[idx + 1])
        new == IF old > 127 THEN 255 ELSE 0
        err == old - new
        b1 == [buf EXCEPT ![idx + 1] = new]
        b2 == IF x + 1 < width
              THEN [b1 EXCEPT ![idx + 2] = @ + TruncDiv(err * 7, 16)] ELSE b1
        b3 == IF y + 1 < height /\ x > 0
              THEN [b2 EXCEPT ![(y + 1) * width + x] = @ + TruncDiv(err * 3, 16)] ELSE b2
        b4 == IF y + 1 < height
              THEN [b3 EXCEPT ![(y + 1) * width + x + 1] = @ + TruncDiv(err * 5, 16)] ELSE b3
    IN  IF y + 1 < height /\ x + 1 < width
        THEN [b4 EXCEPT ![(y + 1) * width + x + 2] = @ + TruncDiv(err, 16)] ELSE b4

\* The two loops, row by row, from pixel idx on.
RECURSIVE DitherFrom(_, _, _, _)
DitherFrom(buf, idx, width, height) ==
    IF idx >= width * height
    THEN buf
    ELSE DitherFrom(DitherPixel(buf, idx % width, idx \div width, width, height),
                    idx + 1, width, height)

\* floyd_steinberg_dither (image_proc.rs:200-235): the pixels of the image
\* after the call.
FloydSteinbergDither(img) ==
    LET buf == DitherFrom(img.pixels, 0, img.width, img.height)
    IN  [i \in 1 .. Len(buf) |-> Clamp(buf[i])]

\* Gray values of a pixel: the extremes, the two sides of the threshold and
\* a dark gray.
PixelValues == {0, 64, 127, 128, 255}
GrayImage(width, height, pixels) == [width |-> width, height |-> height, pixels |-> pixels]
NotDithered == [done |-> FALSE, pixels |-> <<>>]

FloydSteinbergDitherCall ==
    /\ ~dithered.done
    /\ dithered' = [done |-> TRUE, pixels |-> FloydSteinbergDither(image)]
    /\ UNCHANGED <<appVars, connVars, renderVars, scan, image>>

\* The scanner and the image before any call.
InitPure ==
    /\ scan = NewScan(<<>>)
    /\ image = GrayImage(0, 0, <<>>)
    /\ dithered = NotDithered

\* App::default (app.rs:122-158); config: whether load_config found one.
InitAppWith(config) ==
    /\ printing = FALSE
    /\ print_queue = <<>>
    /\ received_messages = <<>>
    /\ selected_printer = None
    /\ discovered = <<>>
    /\ tasks = {}
    /\ manual_tasks = 0
    /\ downloads = [id \in AllIds |-> 0]
    /\ pushed = [id \in AllIds |-> 0]
    /\ dispatched = [id \in AllIds |-> 0]
    /\ marked = [id \in AllIds |-> 0]
    /\ poller_config = config
    /\ panicked = FALSE
    /\ last_message = Handled("none", 0, TRUE)

InitApp == InitAppWith(TRUE)

\* The application after a print has hung: two printers were found, message
\* 2 was delivered and its print task started, and while that task has not
\* reported, message 3 and the messages of OldIds were delivered, one by
\* one.  Their jobs wait in the backlog; the last of them made the display
\* list longer than ReceivedCap, and the entry of message 2 was removed.
InitHungPrint ==
    /\ printing = TRUE
    /\ print_queue = [k \in 1 .. ReceivedCap |-> [message_id |-> k + 2, image_bytes |-> None]]
    /\ received_messages = [k \in 1 .. ReceivedCap |-> [id |-> k + 2, status |-> "Printing"]]
    /\ selected_printer = Some(0)
    /\ discovered = <<1, 2>>
    /\ tasks = {[message_id |-> 2, image_bytes |-> None, product_id |-> 1, ord |-> 1]}
    /\ manual_tasks = 0
    /\ downloads = [id \in AllIds |-> 0]
    /\ pushed = [id \in AllIds |-> IF id >= 2 THEN 1 ELSE 0]
    /\ dispatched = [id \in AllIds |-> IF id = 2 THEN 1 ELSE 0]
    /\ marked = [id \in AllIds |-> 0]
    /\ poller_config = TRUE
    /\ panicked = FALSE
    /\ last_message = Handled("MessagesReceived", 0, TRUE)

InitConn ==
    /\ slot = None
    /\ log = <<>>

\* The rendering variables before any call.
InitRender ==
    /\ blocks = <<>>
    /\ max_chars = 0
    /\ lines = <<>>
    /\ commands = <<>>
    /\ request = NoRequest
    /\ outcome = NoRun

Init ==
    /\ InitApp \/ InitAppWith(FALSE) \/ InitHungPrint
    /\ InitConn /\ InitRender /\ InitPure

Next ==
    \/ PrintersFound
    \/ SelectPrinter
    \/ PrintRequested
    \/ PrintResult
    \/ MessagesReceived
    \/ PrintMessageResult
    \/ ImageDownloaded

\* The scheduler alone: the shared connection stays as constructed.
Spec == Init /\ [][Next]_vars

NextConn ==
    \/ OpenSharedCall
    \/ CloseSharedCall
    \/ PrintWithSharedCall

\* The shared connection alone: the application state stays as constructed.
ConnSpec == Init /\ [][NextConn]_vars

\* wrap_document applied to a document of MaxBlocks blocks at most.
InitWrap ==
    /\ InitApp /\ InitConn /\ InitPure
    /\ blocks \in SeqsUpTo(WrapBlocks, MaxBlocks)
    /\ max_chars \in Widths
    /\ lines = <<>>
    /\ commands = <<>>
    /\ request = NoRequest
    /\ outcome = NoRun

WrapSpec == InitWrap /\ [][WrapDocumentCall]_vars

\* generate_commands_from_lines applied to wrapped lines.
InitCompile ==
    /\ InitApp /\ InitConn /\ InitPure
    /\ blocks = <<>>
    /\ max_chars = 0
    /\ \E sh \in Shapes :
         \E flat \in [1 .. SumSeq(sh) -> SpanValues], al \in [1 .. Len(sh) -> Alignments] :
             lines = LinesOf(sh, flat, al)
    /\ commands = <<>>
    /\ request = NoRequest
    /\ outcome = NoRun

CompileSpec == InitCompile /\ [][GenerateCommandsFromLinesCall]_vars

\* execute_commands applied to a command list.
InitExec ==
    /\ InitApp /\ InitConn /\ InitPure
    /\ blocks = <<>>
    /\ max_chars = 0
    /\ lines = <<>>
    /\ commands \in CommandLists
    /\ request = NoRequest
    /\ outcome = NoRun

ExecSpec == InitExec /\ [][ExecuteCommandsCall]_vars

\* print_website_message applied to a job.
InitJob ==
    /\ InitApp /\ InitConn /\ InitPure
    /\ blocks \in JobDocs
    /\ max_chars \in Widths
    /\ lines = <<>>
    /\ commands = <<>>
    /\ request = NoRequest
    /\ outcome = NoRun

JobSpec == InitJob /\ [][PrintWebsiteMessageCall]_vars

\* parse_inline applied to a fragment.
InitParse ==
    /\ InitApp /\ InitConn /\ InitRender
    /\ \E input \in InlineInputs : scan = NewScan(input)
    /\ image = GrayImage(0, 0, <<>>)
    /\ dithered = NotDithered

ParseSpec == InitParse /\ [][ParseInlineStep \/ ParseInlineReturn]_vars

\* floyd_steinberg_dither applied to an image.
InitDither ==
    /\ InitApp /\ InitConn /\ InitRender
    /\ scan = NewScan(<<>>)
    /\ \E width \in 1 .. MaxImageWidth, height \in 1 .. MaxImageHeight :
         \E pixels \in [1 .. width * height -> PixelValues] :
             image = GrayImage(width, height, pixels)
    /\ dithered = NotDithered

DitherSpec == InitDither /\ [][FloydSteinbergDitherCall]_vars

(***************************************************************************)
(* Properties of the scheduler.                                            *)
(***************************************************************************)
TaskOrds == {t.ord : t \in tasks}
Completions == {"PrintResult", "PrintMessageResult"}
IdsIn(q) == {q[k].message_id : k \in 1 .. Len(q)}
CountIn(q, id) == Cardinality({k \in 1 .. Len(q) : q[k].message_id = id})
\* The program is running: no update has panicked.  A panic unwinds out of
\* update and ends the process, so what it leaves behind is the state of no
\* running program; the scheduler properties speak of a running one.
Running == ~panicked
NoWorkOutstanding ==
    /\ tasks = {}
    /\ manual_tasks = 0
    /\ \A id \in MessageIds : downloads[id] = 0

\* C1: at most one print job is in flight at any time: the print tasks
\* started (manual or queued) whose result has not been handled are never
\* two.
C1_OneJobInFlight == Running => Cardinality(tasks) + manual_tasks <= 1

\* C2: queued jobs are dispatched and complete in submission order: while
\* the print task of a job B is outstanding, every job A pushed before B has
\* had its result handled, so no print task of an earlier job is outstanding
\* together with it.
C2_FifoCompletion ==
    Running => \A b \in TaskOrds : \A a \in 1 .. (b - 1) : a \notin TaskOrds

\* C3: when a job completion (PrintResult or PrintMessageResult) is handled
\* with a non-empty backlog and a printer selected, the head of the backlog
\* is in flight right after that update: it left the queue, a print task
\* carrying its id and image was started, and printing is set.  Otherwise
\* the update leaves printing cleared and starts nothing.
C3_CompletionDispatchesNext ==
    [][last_message'.kind \in Completions =>
         IF print_queue # <<>> /\ selected_printer # None
         THEN /\ printing'
              /\ print_queue' = Tail(print_queue)
              /\ \E t \in tasks' \ tasks :
                     /\ t.message_id = Head(print_queue).message_id
                     /\ t.image_bytes = Head(print_queue).image_bytes
         ELSE /\ ~printing'
              /\ tasks' \subseteq tasks
              /\ manual_tasks' <= manual_tasks]_vars

\* C3 witness: a completion was just handled and the next job is in flight.
C3_Witness ==
    /\ last_message.kind \in Completions
    /\ printing
    /\ \E t \in tasks : t.ord >= 2

\* What became of the job at position k of the queue in a step that started
\* at most one print task: the queue entry it still is, or the task started.
JobAfter(k) ==
    IF Len(print_queue') = Len(print_queue) THEN print_queue'[k]
    ELSE IF k > 1 THEN print_queue'[k - 1]
    ELSE CHOOSE t \in tasks' \ tasks : TRUE
StillThere(k) ==
    \/ Len(print_queue') = Len(print_queue)
    \/ k > 1
    \/ tasks' \ tasks # {}

\* C4: when ImageDownloaded(id, Ok(bytes)) is handled, the bytes go to the
\* backlog job of that message id (the first one with it) and to no other
\* job; when no job of that id is in the backlog, no backlog entry changes
\* and no print task for that message is started.
C4_ImageAttachedToItsJob ==
    [][(last_message'.kind = "ImageDownloaded" /\ last_message'.ok) =>
         LET id == last_message'.id
             q == print_queue
             Mine(k) == /\ q[k].message_id = id
                        /\ \A j \in 1 .. (k - 1) : q[j].message_id # id
         IN  /\ Len(print_queue') \in {Len(q), Len(q) - 1}
             /\ Cardinality(tasks' \ tasks) <= 1
             /\ \A k \in 1 .. Len(q) :
                    StillThere(k) =>
                        /\ JobAfter(k).message_id = q[k].message_id
                        /\ JobAfter(k).image_bytes =
                               IF Mine(k) THEN Some(BytesOf(id)) ELSE q[k].image_bytes
             /\ id \notin IdsIn(q) =>
                    \A t \in tasks' \ tasks : t.message_id # id]_vars

\* C4 witness: an image has just been attached to its job, which is still in
\* the backlog behind another job.
C4_Witness ==
    /\ last_message.kind = "ImageDownloaded"
    /\ last_message.ok
    /\ \E k \in 2 .. Len(print_queue) :
           /\ print_queue[k].message_id = last_message.id
           /\ print_queue[k].image_bytes = Some(BytesOf(last_message.id))
           /\ print_queue[1].image_bytes = None

\* C5: a queued job is not blocked indefinitely: once every started print
\* task and image download has reported its result, no job is left in the
\* backlog (with no message to come, a job left there would wait forever).
C5_NoJobStranded == Running /\ NoWorkOutstanding => print_queue = <<>>

\* The jobs a step took from the front of the queue: the entries the queue
\* held or the step pushed, less the entries it holds after the step.
Taken(id) ==
    CountIn(print_queue, id) + (pushed'[id] - pushed[id]) - CountIn(print_queue', id)
TakenJobs ==
    Len(print_queue) + (SumTo(pushed', ReceivedCap + 2) - SumTo(pushed, ReceivedCap + 2))
        - Len(print_queue')

\* C6: with no printer selected, a backlog job that the scheduler takes
\* fails at once with a "No printer" status: no print task is started,
\* printing stays false and the job's display entry is set to
\* Failed("No printer"); and the queue is not blocked: the entries behind
\* the job stay queued in order and are not left waiting, so the step does
\* not end with jobs in the backlog and nothing outstanding that would
\* dispatch them.
C6_NoPrinterFailsJob ==
    [][(Running /\ Running' /\ selected_printer = None
        /\ last_message'.kind \notin {"PrintersFound", "SelectPrinter"}) =>
         /\ tasks' \subseteq tasks
         /\ manual_tasks' <= manual_tasks
         /\ printing' => printing
         /\ \A k \in 1 .. (Len(print_queue) - TakenJobs) :
                print_queue'[k].message_id = print_queue[k + TakenJobs].message_id
         /\ \A id \in AllIds :
                Taken(id) > 0 =>
                    /\ ~printing'
                    /\ marked'[id] = marked[id] + Taken(id)
                    /\ \E i \in 1 .. Len(received_messages') :
                           /\ received_messages'[i].id = id
                           /\ received_messages'[i].status = "Failed(No printer)"
         /\ TakenJobs > 0 => ~(NoWorkOutstanding' /\ print_queue' # <<>>)]_vars

\* C7: the scheduler never prints a message twice: each message id is pushed
\* onto the backlog at most once and gets a print task at most once, however
\* often the poller delivers it.
C7_PushedAndPrintedOnce ==
    Running => \A id \in MessageIds : pushed[id] <= 1 /\ dispatched[id] <= 1

(***************************************************************************)
(* Properties of the shared connection, read off the log.                  *)
(***************************************************************************)
CallStarts == {i \in 1 .. Len(log) : log[i].ev \in CallKinds}
\* The entries of the call that starts at i: up to its "return".
CallEnd(i) == CHOOSE j \in (i + 1) .. Len(log) :
                  /\ log[j].ev = "return"
                  /\ \A k \in (i + 1) .. (j - 1) : log[k].ev # "return"
OpensOf(i) == {k \in i .. CallEnd(i) : log[k].ev = "open"}
Succeeded(i) == log[CallEnd(i)].ok
\* The product ids with a handle open after the first k entries of the log.
LiveAt(k) ==
    {p \in ProductIds :
        Cardinality({j \in 1 .. k : log[j].ev = "open" /\ log[j].ok /\ log[j].pid = p})
          > Cardinality({j \in 1 .. k : log[j].ev = "close" /\ log[j].pid = p})}
\* Two requests in a row for a handle to the same product id, with no
\* failure or close between them: the first succeeded and the second is the
\* call that follows it.
SameIdTwice(i, j) ==
    /\ i < j
    /\ \A k \in CallStarts : ~(i < k /\ k < j)
    /\ log[i].ev # "close_shared"
    /\ log[j].ev # "close_shared"
    /\ log[i].pid = log[j].pid
    /\ Succeeded(i)

\* C8: two requests in a row for the same product id, with no failure or
\* close between them, make exactly one device open, in the first request
\* (none when the first request found a handle to that id already stored),
\* and the second request makes no open: it reuses the stored handle.
C8_SecondRequestReuses ==
    \A i, j \in CallStarts :
        SameIdTwice(i, j) =>
            /\ Cardinality(OpensOf(i)) = IF log[i].pid \in LiveAt(i) THEN 0 ELSE 1
            /\ OpensOf(j) = {}

\* C9: when open_shared switches to another product id, the prior handle is
\* dropped before the new device is opened: no handle is open at the moment
\* open_shared calls the device open.
C9_CloseBeforeOpen ==
    \A i \in CallStarts :
        log[i].ev = "open_shared" =>
            \A k \in OpensOf(i) : LiveAt(k - 1) = {}

\* C10: print_with_shared called for product id P runs the operation
\* against a handle that is open to P.
C10_RunsOnRequestedId ==
    \A i \in CallStarts :
        log[i].ev = "print_with_shared" =>
            \A k \in i .. CallEnd(i) : log[k].ev = "run" => log[k].pid = log[i].pid

\* The call that follows the call starting at i, if there is one.
NextCall(i) == {j \in CallStarts : j > i /\ \A k \in CallStarts : ~(i < k /\ k < j)}
RunsOf(i) == {k \in i .. CallEnd(i) : log[k].ev = "run"}
ClosesOf(i) == {k \in i .. CallEnd(i) : log[k].ev = "close"}

\* C11: when the operation run by print_with_shared fails, the handle it ran
\* on is dropped before the call returns, the call returns the operation's
\* own error value, no handle is left, and the next request that asks for a
\* handle opens the device afresh; when the operation succeeds the call
\* drops nothing and the handle it ran on is still in the slot.
C11_FailureClearsHandle ==
    \A i \in CallStarts : \A k \in RunsOf(i) :
        IF log[k].ok
        THEN /\ ClosesOf(i) = {}
             /\ Succeeded(i)
             /\ LiveAt(CallEnd(i)) = {log[k].pid}
             /\ (CallEnd(i) = Len(log) => slot = Some(log[k].pid))
        ELSE /\ log[k + 1] = Event("close", log[k].pid, TRUE)
             /\ CallEnd(i) = k + 2
             /\ ~Succeeded(i)
             /\ log[CallEnd(i)].err = log[k].err
             /\ LiveAt(CallEnd(i)) = {}
             /\ (CallEnd(i) = Len(log) => slot = None)
             /\ \A j \in NextCall(i) :
                    log[j].ev # "close_shared" =>
                        /\ OpensOf(j) # {}
                        /\ ClosesOf(j) \subseteq {k2 \in ClosesOf(j) : \E o \in OpensOf(j) : o < k2}

\* C11 witness: an operation failed on a reused handle, and the request
\* after it opened the device again and ran its operation.
C11_Witness ==
    \E i \in CallStarts : \E k \in RunsOf(i) :
        /\ ~log[k].ok
        /\ OpensOf(i) = {}
        /\ \E j \in NextCall(i) :
               /\ log[j].ev = "print_with_shared"
               /\ Succeeded(j)

\* The number of handles that exist after the first k entries of the log:
\* the device opens that succeeded less the handles dropped.
HandleCount(k) ==
    Cardinality({j \in 1 .. k : log[j].ev = "open" /\ log[j].ok})
      - Cardinality({j \in 1 .. k : log[j].ev = "close"})

\* C12: at most one open printer connection exists at any moment: a new
\* handle is opened only after the previous one has been dropped.
C12_OneHandleAtATime == \A k \in 0 .. Len(log) : HandleCount(k) <= 1

(***************************************************************************)
(* Properties of the rendering pipeline.                                   *)
(***************************************************************************)
Min(S) == CHOOSE x \in S : \A y \in S : x <= y
\* The call made for command i, as it was sent.
SentAs(c, ok) == [op |-> DriverCallOf(c).op, arg |-> DriverCallOf(c).arg, ok |-> ok]

\* C13: execute_commands makes one call per command, in list order; when
\* the call for command k is the first to fail, the calls made are those of
\* commands 1..k and no other, and the error returned is that call's; when
\* no call fails, every command is sent and Ok is returned.
C13_StopsAtFirstFailure ==
    request.fn = "execute_commands" =>
        LET failing == {k \in 1 .. Len(commands) : k \in request.faults}
            n == Len(outcome.sent)
        IN  /\ n <= Len(commands)
            /\ \A i \in 1 .. n :
                   outcome.sent[i] = SentAs(commands[i], i \notin request.faults)
            /\ IF failing = {}
               THEN n = Len(commands) /\ outcome.result = Ok
               ELSE n = Min(failing) /\ outcome.result = Err("driver", n)

\* C13 witness: the second command of three failed.
C13_Witness ==
    /\ request.fn = "execute_commands"
    /\ Len(commands) = 3
    /\ Len(outcome.sent) = 2
    /\ ~outcome.result.ok

\* The text commands of the job in `blocks`, and the image of the request.
TextCommands == GenerateCommands(blocks, max_chars)
ImageStepReached ==
    /\ request.fn = "print_website_message"
    /\ request.image_bytes # None
    /\ Unwrap(request.image_bytes) # "empty"
    /\ \A n \in 1 .. (Len(TextCommands) + 3) : n \notin request.faults
\* The calls made up to the end of the image step.
ImageStepEnd ==
    Len(TextCommands) + 3 + (IF Unwrap(request.image_bytes) = "png" THEN 1 ELSE 0)
ImageStepFailed ==
    /\ ImageStepReached
    /\ \/ Unwrap(request.image_bytes) \in {"undecodable", "unencodable"}
       \/ ImageStepEnd \in request.faults

\* C14: when init and every text command succeeded and the image step
\* (decode, encode or image write) fails, the failure is logged and not
\* returned: the text was sent in full, the final feed of 3 lines is issued
\* and, if it succeeds, the cut; the job returns Ok whenever these two calls
\* succeed.
C14_ImageFailureNotFatal ==
    ImageStepFailed =>
        LET s == outcome.sent
            e == ImageStepEnd
        IN  /\ \A i \in 1 .. Len(TextCommands) : s[i + 1] = SentAs(TextCommands[i], TRUE)
            /\ Len(outcome.warned) = 1
            /\ Len(s) >= e + 1
            /\ s[e + 1].op = "feeds" /\ s[e + 1].arg = <<"3">>
            /\ s[e + 1].ok => Len(s) = e + 2 /\ s[e + 2].op = "print_cut"
            /\ outcome.result.ok <=> (e + 1 \notin request.faults /\ e + 2 \notin request.faults)

\* C14 witness: a job with text whose image could not be decoded returned Ok.
C14_Witness ==
    /\ ImageStepFailed
    /\ Unwrap(request.image_bytes) = "undecodable"
    /\ blocks # <<>>
    /\ outcome.result.ok

\* Replaying a command list: the value a flag has after the first k
\* commands, the flag off at the start.
SetsOf(cmds, k, kind) == {j \in 1 .. k : cmds[j].cmd = kind}
FlagAfter(cmds, k, kind) ==
    LET js == SetsOf(cmds, k, kind)
    IN  IF js = {} THEN FALSE ELSE cmds[CHOOSE j \in js : \A j2 \in js : j2 <= j].on
AlignmentAfter(cmds, k) ==
    LET js == SetsOf(cmds, k, "SetAlignment")
    IN  IF js = {} THEN "Left" ELSE cmds[CHOOSE j \in js : \A j2 \in js : j2 <= j].alignment
FlagKinds == {"SetBold", "SetUnderline", "SetDoubleSize"}
Compiled == request.fn = "generate_commands_from_lines"
\* The spans that turn bold on: bold spans that follow no bold span of
\* their line.
BoldStarts ==
    {<<i, j>> \in (1 .. Len(lines)) \X (1 .. MaxSpans) :
        /\ j <= Len(lines[i].spans)
        /\ lines[i].spans[j].format.bold
        /\ (j = 1 \/ ~lines[i].spans[j - 1].format.bold)}

\* C15: in the compiled commands every SetBold(v), SetUnderline(v) and
\* SetDoubleSize(v) changes its flag, which was not-v before it; and there
\* are as many SetBold(true) as there are runs of adjacent bold spans.
C15_NoRedundantSet ==
    Compiled =>
        /\ \A i \in 1 .. Len(commands) :
               commands[i].cmd \in FlagKinds =>
                   commands[i].on # FlagAfter(commands, i - 1, commands[i].cmd)
        /\ Cardinality({i \in 1 .. Len(commands) : commands[i] = SetBold(TRUE)})
             = Cardinality(BoldStarts)

\* C15 witness: a line of two adjacent bold spans was compiled.
C15_Witness ==
    /\ Compiled
    /\ \E i \in 1 .. Len(lines) :
           /\ Len(lines[i].spans) = 2
           /\ lines[i].spans[1].format.bold
           /\ lines[i].spans[2].format.bold
           /\ lines[i].spans[1].format = lines[i].spans[2].format

\* C16: at every Feed of the compiled commands bold, underline and double
\* size are all off.
C16_FormatOffAtFeed ==
    Compiled =>
        \A i \in 1 .. Len(commands) :
            commands[i].cmd = "Feed" =>
                \A kind \in FlagKinds : ~FlagAfter(commands, i, kind)

\* C16 witness: a line whose last span is underlined and double size was
\* compiled.
C16_Witness ==
    /\ Compiled
    /\ \E i \in 1 .. Len(lines) :
           /\ lines[i].spans # <<>>
           /\ lines[i].spans[Len(lines[i].spans)].format.underline
           /\ lines[i].spans[Len(lines[i].spans)].format.double_size

\* The commands of line k: those after the Feed of line k - 1 up to the
\* Feed of line k.
FeedsIn(cmds) == {i \in 1 .. Len(cmds) : cmds[i].cmd = "Feed"}
NthFeed(cmds, k) ==
    IF k = 0 THEN 0
    ELSE CHOOSE i \in FeedsIn(cmds) : Cardinality({j \in FeedsIn(cmds) : j <= i}) = k
Segment(cmds, k) == SubSeq(cmds, NthFeed(cmds, k - 1) + 1, NthFeed(cmds, k))
AlignmentBefore(k) == IF k = 1 THEN "Left" ELSE lines[k - 1].alignment

\* C17: a SetAlignment is compiled for a line exactly when the line's
\* alignment differs from that of the line before it (Left before the first
\* line); it names the line's alignment and is the first command of the
\* line, so before the line's first Write.
C17_AlignmentOnChange ==
    Compiled =>
        /\ Cardinality(FeedsIn(commands)) = Len(lines)
        /\ \A k \in 1 .. Len(lines) :
               LET seg == Segment(commands, k)
                   at == {i \in 1 .. Len(seg) : seg[i].cmd = "SetAlignment"}
               IN  IF lines[k].alignment # AlignmentBefore(k)
                   THEN at = {1} /\ seg[1] = SetAlignment(lines[k].alignment)
                   ELSE at = {}

\* C17 witness: a centered line after a left-aligned line with text.
C17_Witness ==
    /\ Compiled
    /\ Len(lines) = 2
    /\ lines[1].alignment = "Left"
    /\ lines[2].alignment = "Center"
    /\ \E j \in 1 .. Len(lines[2].spans) : lines[2].spans[j].text # <<>>

\* C18: if the last line is not Left-aligned the last command is
\* SetAlignment(Left); otherwise no SetAlignment follows the last Feed.  So
\* the replay of the commands ends Left-aligned.
C18_EndsLeftAligned ==
    Compiled =>
        /\ IF lines # <<>> /\ lines[Len(lines)].alignment # "Left"
           THEN /\ commands # <<>>
                /\ commands[Len(commands)] = SetAlignment("Left")
                /\ commands[Len(commands) - 1].cmd = "Feed"
           ELSE commands = <<>> \/ commands[Len(commands)].cmd = "Feed"
        /\ AlignmentAfter(commands, Len(commands)) = "Left"

\* C18 witness: the last line compiled is right-aligned.
C18_Witness ==
    /\ Compiled
    /\ lines # <<>>
    /\ lines[Len(lines)].alignment = "Right"

RECURSIVE WriteTexts(_)
WriteTexts(cmds) ==
    IF cmds = <<>> THEN <<>>
    ELSE (IF Head(cmds).cmd = "Write" THEN <<Head(cmds).text>> ELSE <<>>)
           \o WriteTexts(Tail(cmds))
RECURSIVE NonEmptyTexts(_)
NonEmptyTexts(spans) ==
    IF spans = <<>> THEN <<>>
    ELSE (IF Head(spans).text # <<>> THEN <<Head(spans).text>> ELSE <<>>)
           \o NonEmptyTexts(Tail(spans))

\* C19: the compiled commands hold one Feed per line; the Writes before the
\* Feed of a line are the texts of the line's non-empty spans, in order and
\* unchanged; no Write follows the last Feed.
C19_WritesAreTheSpans ==
    Compiled =>
        /\ Cardinality(FeedsIn(commands)) = Len(lines)
        /\ \A k \in 1 .. Len(lines) :
               WriteTexts(Segment(commands, k)) = NonEmptyTexts(lines[k].spans)
        /\ WriteTexts(SubSeq(commands, NthFeed(commands, Len(lines)) + 1, Len(commands)))
             = <<>>

\* C19 witness: two lines, an empty span and two different texts.
C19_Witness ==
    /\ Compiled
    /\ Len(lines) = 2
    /\ \E i, j \in 1 .. 2 :
           /\ i # j
           /\ Len(lines[i].spans) = 2
           /\ lines[i].spans[1].text = <<>>
           /\ lines[i].spans[2].text = <<"a">>
           /\ Len(lines[j].spans) = 1
           /\ lines[j].spans[1].text = <<"b">>

\* C20: no line of wrap_document's output is longer than max_chars, unless
\* it holds exactly one word and that word is longer than max_chars.
C20_NoLineTooLong ==
    request.fn = "wrap_document" =>
        \A i \in 1 .. Len(lines) :
            LineCharCount(lines[i].spans) > max_chars =>
                LET words == SplitWords(TextOf(lines[i].spans))
                IN  Len(words) = 1 /\ Len(words[1]) > max_chars

\* The words of a text, of a document's blocks and of wrapped lines.  A
\* Divider stands for its line of dashes.
RECURSIVE WordsOfCells(_)
WordsOfCells(cells) ==
    IF cells = <<>> THEN <<>>
    ELSE SplitWords(TextOf(Head(cells))) \o WordsOfCells(Tail(cells))
BlockWords(block, maxc) ==
    IF block.kind \in {"Heading", "Line"} THEN SplitWords(TextOf(block.spans))
    ELSE IF block.kind = "Columns" THEN WordsOfCells(block.cells)
    ELSE IF block.kind = "Divider" THEN SplitWords(Repeat("-", maxc))
    ELSE <<>>
RECURSIVE InputWords(_, _)
InputWords(bs, maxc) ==
    IF bs = <<>> THEN <<>> ELSE BlockWords(Head(bs), maxc) \o InputWords(Tail(bs), maxc)
RECURSIVE OutputWords(_)
OutputWords(ls) ==
    IF ls = <<>> THEN <<>> ELSE SplitWords(TextOf(Head(ls).spans)) \o OutputWords(Tail(ls))
Wrapped == request.fn = "wrap_document"

\* C21: the words of the wrapped lines, in order, are the words of the
\* document's blocks, in order: none dropped, duplicated or split.
C21_WordsPreserved == Wrapped => OutputWords(lines) = InputWords(blocks, max_chars)

\* C22: a document of one Columns block of two cells gives one line: when the two cell
\* texts are together shorter than max_chars, the left text, spaces up to
\* the width, the right text, max_chars characters in all; otherwise the
\* left text, one space, the right text, both whole.
C22_ColumnsJustified ==
    Wrapped =>
        \A i \in 1 .. Len(blocks) :
            (Len(blocks) = 1 /\ blocks[i].kind = "Columns" /\ Len(blocks[i].cells) = 2) =>
                LET left == TextOf(blocks[i].cells[1])
                    right == TextOf(blocks[i].cells[2])
                    text == TextOf(lines[1].spans)
                IN  /\ Len(lines) = 1
                    /\ IF Len(left) + Len(right) < max_chars
                       THEN /\ Len(text) = max_chars
                            /\ text = left \o Repeat(" ", max_chars - Len(left) - Len(right))
                                           \o right
                       ELSE text = left \o <<" ">> \o right

\* C22 witness: two cells with text that were padded apart by more than one
\* space.
C22_Witness ==
    /\ Wrapped
    /\ blocks # <<>>
    /\ blocks[1].kind = "Columns"
    /\ Len(blocks[1].cells) = 2
    /\ TextOf(blocks[1].cells[1]) = <<"a">>
    /\ TextOf(blocks[1].cells[2]) = <<"a">>
    /\ max_chars = 4
    /\ LineCharCount(lines[1].spans) = 4

\* The width a block is wrapped to.
EffectiveMax(block) ==
    IF \/ block.kind = "Heading"
       \/ \E j \in 1 .. Len(block.spans) : block.spans[j].format.double_size
    THEN max_chars \div 2
    ELSE max_chars
\* Lines wrapped to width w: a line longer than w is a single word, and the
\* first word of a line did not fit at the end of the line before it.
WrappedTo(ls, w) ==
    /\ \A i \in 1 .. Len(ls) :
           LineCharCount(ls[i].spans) > w => Len(SplitWords(TextOf(ls[i].spans))) = 1
    /\ \A i \in 1 .. (Len(ls) - 1) :
           LineCharCount(ls[i].spans) + 1 + Len(SplitWords(TextOf(ls[i + 1].spans))[1]) > w

\* C23: in a document of one block, the lines of a Heading block, and of a
\* Line block with a double size span, are wrapped to max_chars / 2
\* (rounded down); those of another Line block to max_chars.  The lines of
\* a Heading are centered, those of a Line block have the block's alignment.
C23_HalfWidthAndAlignment ==
    Wrapped =>
        \A i \in 1 .. Len(blocks) :
            (Len(blocks) = 1 /\ blocks[i].kind \in {"Heading", "Line"}) =>
                /\ WrappedTo(lines, EffectiveMax(blocks[i]))
                /\ \A k \in 1 .. Len(lines) :
                       lines[k].alignment =
                           IF blocks[i].kind = "Heading" THEN "Center"
                           ELSE blocks[i].alignment

\* C23 witness: a right-aligned Line block with a double size span, whose
\* two words fit max_chars together, was wrapped into two lines.
C23_Witness ==
    /\ Wrapped
    /\ blocks # <<>>
    /\ blocks[1].kind = "Line"
    /\ blocks[1].alignment = "Right"
    /\ \E j \in 1 .. Len(blocks[1].spans) : blocks[1].spans[j].format.double_size
    /\ LineCharCount(blocks[1].spans) <= max_chars
    /\ Len(lines) = 2

\* A fragment in which no delimiter character occurs twice: every opening
\* delimiter in it is unmatched.
NoPair(input) ==
    \A c \in {"*", "_"} : Cardinality({i \in 1 .. Len(input) : input[i] = c}) <= 1

\* C24: parse_inline terminates and returns: every iteration of its loop
\* moves pos forward, so the iterations made never outnumber the bytes of
\* the input; and a fragment whose delimiters have no closing counterpart
\* comes back as plain text, all of it.
C24_ParserReturns ==
    /\ scan.iterations <= Len(scan.input)
    /\ (scan.returned /\ NoPair(scan.input)) =>
           /\ TextOf(scan.spans) = scan.input
           /\ \A i \in 1 .. Len(scan.spans) : scan.spans[i].format = DefaultFormat

\* C25: after floyd_steinberg_dither every pixel is 0 or 255; an image of
\* 255 throughout stays 255 throughout, an image of 0 throughout stays 0.
C25_DitherBlackAndWhite ==
    dithered.done =>
        /\ Len(dithered.pixels) = image.width * image.height
        /\ \A i \in 1 .. Len(dithered.pixels) : dithered.pixels[i] \in {0, 255}
        /\ \A v \in {0, 255} :
               (\A i \in 1 .. Len(image.pixels) : image.pixels[i] = v) =>
                   \A i \in 1 .. Len(dithered.pixels) : dithered.pixels[i] = v

\* C25 witness: a gray image of two rows and two columns came out with
\* black and white pixels both.
C25_Witness ==
    /\ dithered.done
    /\ image.width = 2 /\ image.height = 2
    /\ \A i \in 1 .. 4 : image.pixels[i] \in {64, 127, 128}
    /\ \E i, j \in 1 .. 4 : dithered.pixels[i] = 0 /\ dithered.pixels[j] = 255

\* The calls of a whole job, in the order of print_website_message: init,
\* the text commands, for an image the feed of 2 lines, the second init and
\* (if the bytes decode and encode) the image write, then the feed of 3
\* lines and the cut.
CallsOf(cmds) == [i \in 1 .. Len(cmds) |-> DriverCallOf(cmds[i])]
ImageCalls ==
    IF request.image_bytes = None \/ request.image_bytes = Some("empty")
    THEN <<>>
    ELSE <<[op |-> "feeds", arg |-> <<"2">>], [op |-> "init", arg |-> <<>>]>>
         \o (IF request.image_bytes = Some("png")
             THEN <<[op |-> "bit_image", arg |-> <<"576">>]>> ELSE <<>>)
JobCalls ==
    <<[op |-> "init", arg |-> <<>>]>> \o CallsOf(TextCommands) \o ImageCalls
        \o <<[op |-> "feeds", arg |-> <<"3">>], [op |-> "print_cut", arg |-> <<>>]>>

\* C26: the calls print_website_message makes are a prefix of: init, the
\* text commands, (only with non-empty image bytes) feed 2, init and the
\* image write, then feed 3 and cut; with no failing call, all of them.
\* The second init stands between the last text command and the image
\* write; a cut is the last call made and is made only if init, every text
\* command and every other call but the image write succeeded.
C26_CallOrder ==
    request.fn = "print_website_message" =>
        LET s == outcome.sent
            n == Len(s)
            text_end == Len(TextCommands) + 1
        IN  /\ n <= Len(JobCalls)
            /\ \A i \in 1 .. n : s[i].op = JobCalls[i].op /\ s[i].arg = JobCalls[i].arg
            /\ (\A i \in 1 .. Len(JobCalls) : i \notin request.faults) =>
                   n = Len(JobCalls) /\ outcome.result.ok
            /\ \A i \in 1 .. n : s[i].op = "bit_image" =>
                   /\ i = text_end + 3
                   /\ s[i - 1].op = "init" /\ s[i - 2].op = "feeds"
            /\ \A i \in 1 .. n : s[i].op = "print_cut" =>
                   /\ i = n /\ n = Len(JobCalls)
                   /\ \A j \in 1 .. (i - 1) : s[j].ok \/ s[j].op = "bit_image"
            /\ outcome.result.ok => n = Len(JobCalls) /\ s[n].op = "print_cut" /\ s[n].ok

\* C26 witness: a job with text and an image went through: init, the text,
\* feed 2, init, the image write, feed 3, cut.
C26_Witness ==
    /\ request.fn = "print_website_message"
    /\ request.image_bytes = Some("png")
    /\ blocks # <<>>
    /\ request.faults = {}
    /\ Len(outcome.sent) = Len(TextCommands) + 6
    /\ outcome.sent[Len(outcome.sent)].op = "print_cut"
    /\ outcome.result.ok

\* C27: printing tracks the outstanding print tasks: it is true exactly
\* when one print task, manual or queued, has been started and has not had
\* its result handled; never true with no task outstanding, never false
\* while a task is still running.
C27_FlagTracksTasks ==
    Running => (printing <=> (Cardinality(tasks) + manual_tasks = 1))

\* C28: no queued job is dropped silently: every job taken from print_queue
\* got a print task or had its display entry set to Failed, and a display
\* entry in status Printing has its job in the backlog or in flight.
C28_NoSilentDrop ==
    Running =>
    /\ \A id \in AllIds :
           pushed[id] - CountIn(print_queue, id) = dispatched[id] + marked[id]
    /\ \A i \in 1 .. Len(received_messages) :
           received_messages[i].status = "Printing" =>
               \/ received_messages[i].id \in IdsIn(print_queue)
               \/ \E t \in tasks : t.message_id = received_messages[i].id

\* C29: selected_printer is None or an index into discovered, so the
\* "Printer not found" branches of Print and try_print_next_queued are
\* never taken.
C29_SelectionInRange ==
    selected_printer # None => Unwrap(selected_printer) < Len(discovered)

\* C29 witness: the second of two printers is selected (after a
\* SelectPrinter; a scan selects the first).
C29_Witness ==
    /\ selected_printer = Some(1)
    /\ Len(discovered) = 2
    /\ last_message.kind = "SelectPrinter"

\* C30: a device open that fails inside open_shared or print_with_shared
\* leaves the slot as it was before the call (empty stays empty; in
\* open_shared a handle to another product stays stored); the call makes no
\* other device call, runs no operation, drops no handle, and returns the
\* open's error.
C30_FailedOpenKeepsSlot ==
    [][\A k \in (Len(log) + 1) .. Len(log') :
           (log'[k].ev = "open" /\ ~log'[k].ok) =>
               /\ slot' = slot
               /\ Len(log') = Len(log) + 3
               /\ k = Len(log) + 2
               /\ log'[k - 1].ev \in {"open_shared", "print_with_shared"}
               /\ log'[k + 1] = Failed("return", log'[k].pid, OpenError)
               /\ (log'[k - 1].ev = "print_with_shared" => slot = None)]_vars

\* C30 witness: open_shared asked for another product than the one the slot
\* holds a handle to, the device open failed, and the handle is still there.
C30_Witness ==
    /\ Len(log) >= 3
    /\ log[Len(log) - 2].ev = "open_shared"
    /\ log[Len(log) - 1].ev = "open" /\ ~log[Len(log) - 1].ok
    /\ slot # None
    /\ Unwrap(slot) # log[Len(log) - 1].pid
====
